---- MODULE Spec2Model ----
(***************************************************************************)
(* pixelheart-mood-garden: the local-first / cloud-fallback persistence    *)
(* layer (src/services/db.ts, src/services/supabase.ts), the streak        *)
(* calculator and the App component (src/App.tsx), the password screen     *)
(* (src/components/PasswordScreen.tsx), and analyzeMood (supabase.ts).     *)
(*                                                                         *)
(* Entry ids are decimal strings; they are modelled as sequences of        *)
(* digits so that Number(id), the IndexedDB key order and the ordering of  *)
(* the server's text column are three different things.                    *)
(***************************************************************************)
EXTENDS Integers, Sequences, FiniteSets, TLC

VARIABLES configured, dbState, local, remote, inflight, save, load, sync, ops,
          tz, now, memories, streak,
          appState, currentUser, legacy, cameraActive, capturedImage, isGenerating,
          task, post, posted, permission,
          analysis

dbVars == <<configured, dbState, local, remote, inflight, save, load, sync, ops>>
streakVars == <<tz, now, memories, streak>>
appVars == <<appState, currentUser, legacy, cameraActive, capturedImage, isGenerating,
             task, post, posted, permission>>
vars == <<configured, dbState, local, remote, inflight, save, load, sync, ops,
          tz, now, memories, streak,
          appState, currentUser, legacy, cameraActive, capturedImage, isGenerating,
          task, post, posted, permission,
          analysis>>

(***************************************************************************)
(* Bounds of the model.                                                    *)
(***************************************************************************)
\* operations (saveMemory, getMemories, deleteMemory, syncLocalToCloud) started
MaxOps == 4
\* fire-and-forget upserts of saveMemory that may be in flight at once
MaxInflight == 2
\* length of the lists given to calculateStreak
MaxLen == 3
\* calendar days of the streak model are 0..MaxDay
MaxDay == 3
\* the calendar day that is an hour short or long where the clock changes
DstDay == 2

(***************************************************************************)
(* Strings of digits.                                                      *)
(***************************************************************************)
Range(s) == {s[i] : i \in 1..Len(s)}

RECURSIVE Number(_)
\* Number("...") of a non-empty decimal string
Number(s) == IF Len(s) = 0 THEN 0
             ELSE 10 * Number(SubSeq(s, 1, Len(s) - 1)) + s[Len(s)]

RECURSIVE toString(_)
\* (n).toString() of a non-negative integer
toString(n) == IF n < 10 THEN <<n>> ELSE Append(toString(n \div 10), n % 10)

RECURSIVE StrLess(_, _)
\* s < t as strings (code-unit order; a proper prefix is smaller)
StrLess(s, t) ==
    IF Len(t) = 0 THEN FALSE
    ELSE IF Len(s) = 0 THEN TRUE
    ELSE IF s[1] # t[1] THEN s[1] < t[1]
    ELSE StrLess(Tail(s), Tail(t))

(***************************************************************************)
(* Memory (src/types.ts) and CloudMemory (src/services/supabase.ts).       *)
(***************************************************************************)
Ids == {<<9>>, <<1, 0>>, <<1, 1>>}

Memory(id, mood) ==
    [id |-> id, date |-> "Jan 5", mood |-> mood,
     imageUrl |-> "data:image/png", summary |-> "A quiet moment."]

\* one entry per id, and a second version of the entry with id "9"
Memories == {Memory(i, "Vibing") : i \in Ids} \cup {Memory(<<9>>, "Noted")}

\* the row saveMemoryToCloud upserts; created_at is assigned by the server
ToCloudRow(m) ==
    [id |-> m.id, date |-> m.date, mood |-> m.mood,
     image_url |-> m.imageUrl, summary |-> m.summary, created_at |-> "server"]

\* a getMemories that returns the rows of the cloud as they are
FromCloudRow_asIs(c) == c

\* the mapping of getMemories from the cloud format to the local format
FromCloudRow(c) ==
    [id |-> c.id, date |-> c.date, mood |-> c.mood,
     imageUrl |-> c.image_url, summary |-> c.summary]

IdsOf(S) == {x.id : x \in S}

\* a store that keeps the old value beside the new one
Put_append(S, x) == S \cup {x}

\* a keyed store: put replaces the value stored under the same id
Put(S, x) == {y \in S : y.id # x.id} \cup {x}


(***************************************************************************)
(* Orders.                                                                 *)
(***************************************************************************)
RECURSIVE getAll(_)
\* db.getAll('memories'): the object store enumerates in key order, and keys
\* are strings
getAll(S) ==
    IF S = {} THEN <<>>
    ELSE LET x == CHOOSE y \in S : \A z \in S \ {y} : StrLess(y.id, z.id)
         IN  <<x>> \o getAll(S \ {x})

RECURSIVE listAll(_)
\* select('*').order('id', {ascending: false}) on the text column id
listAll(R) ==
    IF R = {} THEN <<>>
    ELSE LET x == CHOOSE y \in R : \A z \in R \ {y} : StrLess(z.id, y.id)
         IN  <<x>> \o listAll(R \ {x})

\* the comparison of the ids as strings
byIdDesc_lexicographic(a, b) ==
    IF StrLess(b.id, a.id) THEN -1 ELSE IF StrLess(a.id, b.id) THEN 1 ELSE 0

\* (a, b) => Number(b.id) - Number(a.id)
byIdDesc(a, b) == Number(b.id) - Number(a.id)

RECURSIVE InsertStable(_, _)
\* x inserted into the sorted sequence s behind every element that does not
\* sort after it (Array.prototype.sort is stable)
InsertStable(s, x) ==
    IF Len(s) = 0 THEN <<x>>
    ELSE IF byIdDesc(Head(s), x) <= 0 THEN <<Head(s)>> \o InsertStable(Tail(s), x)
    ELSE <<x>> \o s

RECURSIVE sortByIdDesc(_)
\* memories.sort((a, b) => Number(b.id) - Number(a.id))
sortByIdDesc(s) ==
    IF Len(s) = 0 THEN <<>>
    ELSE InsertStable(sortByIdDesc(SubSeq(s, 1, Len(s) - 1)), s[Len(s)])

(***************************************************************************)
(* The records of the operations in progress.                              *)
(***************************************************************************)
SaveIdle == [pc |-> "idle", entry |-> Memory(<<9>>, "Vibing"), cause |-> "none"]
LoadIdle == [pc |-> "idle", cloud |-> "none", rows |-> <<>>, result |-> <<>>]
SyncIdle == [pc |-> "idle", queue |-> <<>>, n |-> 0, synced |-> 0, failed |-> 0,
             applied |-> 0, quiet |-> FALSE,
             sent |-> "none", ret |-> [rejected |-> FALSE, value |-> FALSE]]

\* the caller is awaiting saveMemory or getMemories
Busy == save.pc = "put" \/ load.pc \in {"fetching", "local"}

SyncRunning == sync.pc = "pushing"

\* a finished reconciliation is forgotten when the next operation starts; a
\* running one is no longer the last operation
SyncSeen == IF SyncRunning THEN [sync EXCEPT !.quiet = FALSE] ELSE SyncIdle

\* getDB(): the promise of the first openDB is kept, fulfilled or rejected
getDB(outcome) == IF dbState = "unopened" THEN outcome ELSE dbState

(***************************************************************************)
(* saveMemory (db.ts) and saveMemoryToCloud (supabase.ts).                 *)
(***************************************************************************)
\* a retried upsert that lands although the first attempt failed
upsert_retried(R, m, outcome) == Put(R, ToCloudRow(m))

\* supabase.from('memories').upsert({...}) once settled: the table afterwards
upsert(R, m, outcome) == IF outcome = "ok" THEN Put(R, ToCloudRow(m)) ELSE R

\* a saveMemoryToCloud without its catch
saveMemoryToCloud_uncaught(outcome) ==
    IF ~configured THEN [rejected |-> FALSE, value |-> FALSE]
    ELSE IF outcome = "throw" THEN [rejected |-> TRUE, value |-> FALSE]
    ELSE IF outcome = "error" THEN [rejected |-> FALSE, value |-> FALSE]
    ELSE [rejected |-> FALSE, value |-> TRUE]

\* how the promise of saveMemoryToCloud settles: try { if (!supabaseAnonKey)
\* return false; ...; if (error) return false; return true } catch { return false }
saveMemoryToCloud(outcome) ==
    IF ~configured THEN [rejected |-> FALSE, value |-> FALSE]
    ELSE IF outcome = "throw" THEN [rejected |-> FALSE, value |-> FALSE]
    ELSE IF outcome = "error" THEN [rejected |-> FALSE, value |-> FALSE]
    ELSE [rejected |-> FALSE, value |-> TRUE]

\* saveMemoryToCloud(memory), not awaited: the upserts in flight afterwards
saveMemoryToCloud_start(m) == IF configured THEN inflight \cup {m} ELSE inflight

\* saveMemory writing to the cloud only
saveMemory_put_cloudOnly(m, ok) ==
    IF ok
    THEN [local |-> local, inflight |-> saveMemoryToCloud_start(m),
          save |-> [save EXCEPT !.pc = "resolved"]]
    ELSE [local |-> local, inflight |-> inflight,
          save |-> [save EXCEPT !.pc = "rejected", !.cause = "put"]]

\* saveMemory starting the upsert whether or not the put succeeded
saveMemory_put_pushAnyway(m, ok) ==
    IF ok
    THEN [local |-> Put(local, m), inflight |-> saveMemoryToCloud_start(m),
          save |-> [save EXCEPT !.pc = "resolved"]]
    ELSE [local |-> local, inflight |-> saveMemoryToCloud_start(m),
          save |-> [save EXCEPT !.pc = "rejected", !.cause = "put"]]

\* saveMemory after `await db.put` settled
saveMemory_put(m, ok) ==
    IF ok
    THEN [local |-> Put(local, m), inflight |-> saveMemoryToCloud_start(m),
          save |-> [save EXCEPT !.pc = "resolved"]]
    ELSE [local |-> local, inflight |-> inflight,
          save |-> [save EXCEPT !.pc = "rejected", !.cause = "put"]]

\* a saveMemory whose outcome follows the upsert's
saveMemory_settled_awaited(s, outcome) ==
    IF outcome # "ok" /\ s.pc = "resolved" THEN [s EXCEPT !.pc = "rejected"] ELSE s

\* .catch(err => console.warn(...)): what the settled upsert does to the call
saveMemory_settled(s, outcome) == s

SaveOpen(m, db) ==
    /\ ~Busy
    /\ ops < MaxOps
    /\ Cardinality(inflight) < MaxInflight
    /\ dbState' = getDB(db)
    /\ save' = IF dbState' = "open"
               THEN [pc |-> "put", entry |-> m, cause |-> "none"]
               ELSE [pc |-> "rejected", entry |-> m, cause |-> "open"]
    /\ load' = LoadIdle
    /\ sync' = SyncSeen
    /\ ops' = ops + 1
    /\ UNCHANGED <<configured, local, remote, inflight>>
    /\ UNCHANGED streakVars
    /\ UNCHANGED appVars
    /\ UNCHANGED analysis

SavePut(ok) ==
    /\ save.pc = "put"
    /\ LET r == saveMemory_put(save.entry, ok)
       IN  /\ local' = r.local
           /\ inflight' = r.inflight
           /\ save' = r.save
    /\ UNCHANGED <<configured, dbState, remote, load, sync, ops>>
    /\ UNCHANGED streakVars
    /\ UNCHANGED appVars
    /\ UNCHANGED analysis

\* the upsert of a saveMemory settles: applied by the server, refused by it, or
\* the request throws
PushSettle(m, outcome) ==
    /\ m \in inflight
    /\ inflight' = inflight \ {m}
    /\ remote' = upsert(remote, m, outcome)
    /\ save' = saveMemory_settled(save, outcome)
    /\ UNCHANGED <<configured, dbState, local, load, sync, ops>>
    /\ UNCHANGED streakVars
    /\ UNCHANGED appVars
    /\ UNCHANGED analysis

(***************************************************************************)
(* getMemories (db.ts) and getMemoriesFromCloud (supabase.ts).             *)
(***************************************************************************)
\* getMemoriesFromCloud once the select settled: data || [], [] on any failure
getMemoriesFromCloud(outcome) == IF outcome = "ok" THEN listAll(remote) ELSE <<>>

\* getMemories merging the entries only Local holds into the cloud's
getMemories_cloud_merge(rows, tag) ==
    IF Len(rows) > 0
    THEN [pc |-> "done", cloud |-> "rows", rows |-> rows,
          result |-> [i \in 1..Len(rows) |-> FromCloudRow(rows[i])]
                     \o getAll({m \in local : \A i \in 1..Len(rows) : rows[i].id # m.id})]
    ELSE [pc |-> "local", cloud |-> tag, rows |-> rows, result |-> <<>>]

\* getMemories with cloudMemories in hand
getMemories_cloud(rows, tag) ==
    IF Len(rows) > 0
    THEN [pc |-> "done", cloud |-> "rows", rows |-> rows,
          result |-> [i \in 1..Len(rows) |-> FromCloudRow(rows[i])]]
    ELSE [pc |-> "local", cloud |-> tag, rows |-> rows, result |-> <<>>]

\* the fallback to IndexedDB
getMemories_local(S) == sortByIdDesc(getAll(S))

LoadStart ==
    /\ ~Busy
    /\ ops < MaxOps
    /\ load' = IF configured
               THEN [LoadIdle EXCEPT !.pc = "fetching"]
               ELSE getMemories_cloud(<<>>, "unconfigured")
    /\ sync' = SyncSeen
    /\ ops' = ops + 1
    /\ UNCHANGED <<configured, dbState, local, remote, inflight, save>>
    /\ UNCHANGED streakVars
    /\ UNCHANGED appVars
    /\ UNCHANGED analysis

LoadCloudResponse(outcome) ==
    /\ load.pc = "fetching"
    /\ load' = getMemories_cloud(getMemoriesFromCloud(outcome),
                                 IF outcome = "ok" THEN "empty" ELSE outcome)
    /\ UNCHANGED <<configured, dbState, local, remote, inflight, save, sync, ops>>
    /\ UNCHANGED streakVars
    /\ UNCHANGED appVars
    /\ UNCHANGED analysis

LoadLocal(db) ==
    /\ load.pc = "local"
    /\ dbState' = getDB(db)
    /\ load' = IF dbState' = "open"
               THEN [load EXCEPT !.pc = "done", !.result = getMemories_local(local)]
               ELSE [load EXCEPT !.pc = "rejected"]
    /\ UNCHANGED <<configured, local, remote, inflight, save, sync, ops>>
    /\ UNCHANGED streakVars
    /\ UNCHANGED appVars
    /\ UNCHANGED analysis

(***************************************************************************)
(* deleteMemory (db.ts).                                                   *)
(***************************************************************************)
deleteMemory_delete(S, id) == {y \in S : y.id # id}

DeleteMemory(id, db) ==
    /\ ~Busy
    /\ ops < MaxOps
    /\ dbState' = getDB(db)
    /\ local' = IF dbState' = "open" THEN deleteMemory_delete(local, id) ELSE local
    /\ save' = SaveIdle
    /\ load' = LoadIdle
    /\ sync' = SyncSeen
    /\ ops' = ops + 1
    /\ UNCHANGED <<configured, remote, inflight>>
    /\ UNCHANGED streakVars
    /\ UNCHANGED appVars
    /\ UNCHANGED analysis

(***************************************************************************)
(* syncLocalToCloud (db.ts).                                               *)
(***************************************************************************)
\* the for loop up to its next pending upsert: an unconfigured
\* saveMemoryToCloud returns false at once, a configured one sends the request
syncLoop(s) ==
    IF Len(s.queue) = 0 THEN [s EXCEPT !.pc = "done"]
    ELSE IF configured THEN [s EXCEPT !.pc = "pushing"]
    ELSE [s EXCEPT !.pc = "done", !.queue = <<>>,
                   !.failed = s.failed + Len(s.queue),
                   !.sent = "unsent", !.ret = saveMemoryToCloud("unsent")]

\* a loop body that counts a false result and loses a thrown one
syncCount_throwUncounted(s, outcome) ==
    LET success == saveMemoryToCloud(outcome)
        t == [s EXCEPT !.queue = Tail(s.queue), !.sent = outcome, !.ret = success]
    IN  IF outcome = "throw" THEN t
        ELSE IF success.value
        THEN [t EXCEPT !.synced = s.synced + 1, !.applied = s.applied + 1]
        ELSE [t EXCEPT !.failed = s.failed + 1]

\* the body of the loop once saveMemoryToCloud(memory) settled:
\* try { success ? synced++ : failed++ } catch { failed++ }
syncCount(s, outcome) ==
    LET success == saveMemoryToCloud(outcome)
        t == [s EXCEPT !.queue = Tail(s.queue), !.sent = outcome, !.ret = success]
    IN  IF success.rejected THEN [t EXCEPT !.failed = s.failed + 1]
        ELSE IF success.value
        THEN [t EXCEPT !.synced = s.synced + 1,
                       !.applied = s.applied + (IF outcome = "ok" THEN 1 ELSE 0)]
        ELSE [t EXCEPT !.failed = s.failed + 1]

SyncStart(db) ==
    /\ ~SyncRunning
    /\ ops < MaxOps
    /\ dbState' = getDB(db)
    /\ sync' = IF dbState' = "open"
               THEN syncLoop([SyncIdle EXCEPT !.queue = getAll(local),
                                              !.n = Cardinality(local),
                                              !.quiet = ~Busy])
               ELSE [SyncIdle EXCEPT !.pc = "rejected"]
    /\ ops' = ops + 1
    /\ UNCHANGED <<configured, local, remote, inflight, save, load>>
    /\ UNCHANGED streakVars
    /\ UNCHANGED appVars
    /\ UNCHANGED analysis

SyncPushDone(outcome) ==
    /\ sync.pc = "pushing"
    /\ remote' = upsert(remote, Head(sync.queue), outcome)
    /\ sync' = syncLoop(syncCount(sync, outcome))
    /\ UNCHANGED <<configured, dbState, local, inflight, save, load, ops>>
    /\ UNCHANGED streakVars
    /\ UNCHANGED appVars
    /\ UNCHANGED analysis

(***************************************************************************)
(* The persistence layer as a state machine.                               *)
(***************************************************************************)
Outcomes == {"ok", "error", "throw"}
DbOutcomes == {"open", "failed"}

StreakIdle ==
    /\ tz = "fixed"
    /\ now = 0
    /\ memories = <<>>
    /\ streak = 0

\* the App component before anything happened; localStorage holds no legacy key
AppIdle ==
    /\ appState = "LOADING"
    /\ currentUser = "null"
    /\ legacy = [kind |-> "absent", items |-> <<>>]
    /\ cameraActive = FALSE
    /\ capturedImage = FALSE
    /\ isGenerating = FALSE
    /\ task = [pc |-> "none", queue |-> <<>>]
    /\ post = [pc |-> "idle", seen |-> <<>>]
    /\ posted = [n |-> 0, id |-> <<>>]
    /\ permission = TRUE

DbIdle ==
    /\ configured = TRUE
    /\ dbState = "unopened"
    /\ local = {}
    /\ remote = {}
    /\ inflight = {}
    /\ save = SaveIdle
    /\ load = LoadIdle
    /\ sync = SyncIdle
    /\ ops = 0

Init ==
    /\ configured \in BOOLEAN
    /\ dbState = "unopened"
    /\ local = {}
    /\ remote = {}
    /\ inflight = {}
    /\ save = SaveIdle
    /\ load = LoadIdle
    /\ sync = SyncIdle
    /\ ops = 0
    /\ StreakIdle
    /\ AppIdle
    /\ analysis = [pc |-> "idle", text |-> "", response |-> "none"]

Next ==
    \/ \E m \in Memories, db \in DbOutcomes : SaveOpen(m, db)
    \/ \E ok \in BOOLEAN : SavePut(ok)
    \/ \E m \in Memories, o \in Outcomes : PushSettle(m, o)
    \/ LoadStart
    \/ \E o \in Outcomes : LoadCloudResponse(o)
    \/ \E db \in DbOutcomes : LoadLocal(db)
    \/ \E id \in Ids, db \in DbOutcomes : DeleteMemory(id, db)
    \/ \E db \in DbOutcomes : SyncStart(db)
    \/ \E o \in Outcomes : SyncPushDone(o)

Spec == Init /\ [][Next]_vars


(***************************************************************************)
(* Local time.  A timestamp is a number of milliseconds counted from the   *)
(* local midnight that starts day 0.  In a zone whose clock changes, day   *)
(* DstDay lasts 23 hours (spring) or 25 hours (fall).                      *)
(***************************************************************************)
HourMs == 60 * 60 * 1000

\* const oneDay = 24 * 60 * 60 * 1000
oneDay == 24 * 60 * 60 * 1000

Zones == {"fixed", "spring", "fall"}

DayLength(k) ==
    IF k = DstDay /\ tz = "spring" THEN 23 * HourMs
    ELSE IF k = DstDay /\ tz = "fall" THEN 25 * HourMs
    ELSE 24 * HourMs

RECURSIVE Midnight(_)
\* the timestamp of the local midnight that starts day k
Midnight(k) == IF k = 0 THEN 0 ELSE Midnight(k - 1) + DayLength(k - 1)

\* the calendar day a timestamp falls on
DayOf(ts) == CHOOSE k \in 0..MaxDay : Midnight(k) <= ts /\ ts < Midnight(k + 1)

\* d = new Date(ts); d.setHours(0, 0, 0, 0); d.getTime()
startOfDay(ts) == Midnight(DayOf(ts))

\* the timestamps the model posts at: the first millisecond and the noon of a day
Times == {Midnight(k) + o : k \in 0..MaxDay, o \in {0, 12 * HourMs}}

\* the entry posted at ts: id: Date.now().toString()
EntryAt(ts) == Memory(toString(ts), "Vibing")

(***************************************************************************)
(* calculateStreak (App.tsx).                                              *)
(***************************************************************************)
RECURSIVE streakWalk_sameDayCounts(_, _, _)
\* a walk that counts every entry, also a second one of the same day
streakWalk_sameDayCounts(mems, i, currentStreak) ==
    IF i > Len(mems) THEN currentStreak
    ELSE LET prevD == startOfDay(Number(mems[i - 1].id))
             currD == startOfDay(Number(mems[i].id))
             diff == prevD - currD
         IN  IF diff = oneDay \/ diff = 0
             THEN streakWalk_sameDayCounts(mems, i + 1, currentStreak + 1)
             ELSE currentStreak

RECURSIVE streakWalk_pastDisorder(_, _, _)
\* a walk that breaks on a gap of two days or more only, and counts on
\* through a pair in the wrong order
streakWalk_pastDisorder(mems, i, currentStreak) ==
    IF i > Len(mems) THEN currentStreak
    ELSE LET prevD == startOfDay(Number(mems[i - 1].id))
             currD == startOfDay(Number(mems[i].id))
             diff == prevD - currD
         IN  IF diff = oneDay \/ diff < 0
             THEN streakWalk_pastDisorder(mems, i + 1, currentStreak + 1)
             ELSE IF diff = 0 THEN streakWalk_pastDisorder(mems, i + 1, currentStreak)
             ELSE currentStreak

RECURSIVE streakWalk(_, _, _)
\* for (let i = 1; i < memories.length; i++) { ... } return currentStreak
streakWalk(mems, i, currentStreak) ==
    IF i > Len(mems) THEN currentStreak
    ELSE LET prevD == startOfDay(Number(mems[i - 1].id))
             currD == startOfDay(Number(mems[i].id))
             diff == prevD - currD
         IN  IF diff = oneDay THEN streakWalk(mems, i + 1, currentStreak + 1)
             ELSE IF diff = 0 THEN streakWalk(mems, i + 1, currentStreak)
             ELSE currentStreak

calculateStreak(mems) ==
    IF Len(mems) = 0 THEN 0
    ELSE LET today == startOfDay(now)
             latestDate == startOfDay(Number(mems[1].id))
         IN  IF latestDate = today THEN streakWalk(mems, 2, 1)
             ELSE IF latestDate = today - oneDay THEN streakWalk(mems, 2, 1)
             ELSE 0

(***************************************************************************)
(* The lists calculateStreak is called on.                                 *)
(***************************************************************************)
\* setMemories(dbMemories); setStreak(calculateStreak(dbMemories)), the list
\* growing by one older or out-of-order entry
ListAppend(ts) ==
    /\ Len(memories) < MaxLen
    /\ memories' = Append(memories, EntryAt(ts))
    /\ streak' = calculateStreak(memories')
    /\ UNCHANGED <<tz, now>>
    /\ UNCHANGED dbVars
    /\ UNCHANGED appVars
    /\ UNCHANGED analysis

\* updatedMemories = [newMemory, ...memories]; setStreak(calculateStreak(...))
ListPrepend(ts) ==
    /\ Len(memories) < MaxLen
    /\ memories' = <<EntryAt(ts)>> \o memories
    /\ streak' = calculateStreak(memories')
    /\ UNCHANGED <<tz, now>>
    /\ UNCHANGED dbVars
    /\ UNCHANGED appVars
    /\ UNCHANGED analysis

InitStreak ==
    /\ tz \in Zones
    /\ now \in {Midnight(k) + 12 * HourMs : k \in 0..MaxDay}
    /\ memories = <<>>
    /\ streak = 0
    /\ DbIdle
    /\ AppIdle
    /\ analysis = [pc |-> "idle", text |-> "", response |-> "none"]

NextStreak ==
    \/ \E ts \in Times : ListAppend(ts)
    \/ \E ts \in Times : ListPrepend(ts)

SpecStreak == InitStreak /\ [][NextStreak]_vars


(***************************************************************************)
(* PasswordScreen (components/PasswordScreen.tsx).  An input is a sequence *)
(* of characters.                                                          *)
(***************************************************************************)
\* c.toLowerCase() of one character
toLowerCase(c) ==
    CASE c = "S" -> "s"
      [] c = "A" -> "a"
      [] c = "H" -> "h"
      [] OTHER -> c

RECURSIVE trimStart(_)
trimStart(s) ==
    IF Len(s) > 0 /\ Head(s) = " " THEN trimStart(Tail(s)) ELSE s

RECURSIVE trimEnd(_)
trimEnd(s) ==
    IF Len(s) > 0 /\ s[Len(s)] = " " THEN trimEnd(SubSeq(s, 1, Len(s) - 1)) ELSE s

\* input.toLowerCase().trim()
normalize(input) == trimEnd(trimStart([i \in 1..Len(input) |-> toLowerCase(input[i])]))

saeed == <<"s", "a", "e", "e", "d">>
shahad == <<"s", "h", "a", "h", "a", "d">>

\* a property every object literal inherits from Object.prototype
constructor == <<"c", "o", "n", "s", "t", "r", "u", "c", "t", "o", "r">>

\* USERS[key]: the role of an own key, the inherited value of an inherited
\* one, undefined otherwise
USERS(key) ==
    IF key = saeed THEN "saeed"
    ELSE IF key = shahad THEN "shahad"
    ELSE IF key = constructor THEN "inherited"
    ELSE "undefined"

\* the passwords typed in the model
Inputs ==
    {saeed, shahad, constructor,
     <<" ", "S", "a", "e", "e", "d">>, <<"S", "H", "A", "H", "A", "D", " ">>,
     <<"s", "a", " ", "e", "e", "d">>, <<>>}

(***************************************************************************)
(* The App component (App.tsx): the effect that loads the entries on       *)
(* entering APP, the camera, and handlePost.                               *)
(***************************************************************************)
\* posts of one session
MaxPosts == 2

\* Date.now() of the model: the noons of the last two days, whose timestamps
\* have the same number of digits (the timestamps of 2001 to 2286 all have 13)
AppTimes ==
    {t \in {Midnight(k) + 12 * HourMs : k \in (MaxDay - 1)..MaxDay} :
        Len(toString(t)) = Len(toString(Midnight(MaxDay)))}

\* the values localStorage.getItem('pixelHerMemories') can hold when the app
\* is entered: nothing, text JSON.parse throws on, JSON that is no array, an
\* array of entries
LegacyAbsent == [kind |-> "absent", items |-> <<>>]

LegacyValues ==
    LET t1 == CHOOSE t \in AppTimes : \A u \in AppTimes : t <= u
        t2 == CHOOSE t \in AppTimes \ {t1} : \A u \in AppTimes \ {t1} : t <= u
    IN  {LegacyAbsent,
         [kind |-> "unparsable", items |-> <<>>],
         [kind |-> "object", items |-> <<>>],
         [kind |-> "array",
          items |-> <<EntryAt(t2), Memory(toString(t1), "Noted")>>]}

\* the number of entries handlePost created so far and the id of the last one
NonePosted == [n |-> 0, id |-> <<>>]

TaskIdle == [pc |-> "none", queue |-> <<>>]
PostIdle == [pc |-> "idle", seen |-> <<>>]

\* the start of saveMemory(m): await getDB() gave st
saveMemory_start(m, st) ==
    IF st = "open"
    THEN [pc |-> "put", entry |-> m, cause |-> "none"]
    ELSE [pc |-> "rejected", entry |-> m, cause |-> "open"]

\* the start of getMemories(): an unconfigured getMemoriesFromCloud returns []
\* without a request
getMemories_start ==
    IF configured
    THEN [LoadIdle EXCEPT !.pc = "fetching"]
    ELSE getMemories_cloud(<<>>, "unconfigured")

\* the start of syncLocalToCloud(): await getDB() gave st, then getAll
syncLocalToCloud_start(st) ==
    IF st = "open"
    THEN syncLoop([SyncIdle EXCEPT !.queue = getAll(local),
                                   !.n = Cardinality(local)])
    ELSE [SyncIdle EXCEPT !.pc = "rejected"]

\* a migration that removes the legacy key however the saves ended
loadData_migrated_alwaysRemoves(ok) == LegacyAbsent

\* the legacy key when the migration ends: removeItem comes after the loop
\* inside the try, so a rejected saveMemory skips it
loadData_migrated(ok) == IF ok THEN LegacyAbsent ELSE legacy

\* loadData up to its first await that waits for the outside: the legacy key is
\* read; an array is migrated entry by entry, anything else parsed is removed,
\* unparsable text is kept; then getMemories() is called
loadData_start(db) ==
    IF legacy.kind = "array" /\ Len(legacy.items) > 0
    THEN IF getDB(db) = "open"
         THEN [task |-> [pc |-> "migrating", queue |-> legacy.items],
               legacy |-> legacy, load |-> load, dbState |-> "open"]
         ELSE [task |-> [pc |-> "loading", queue |-> <<>>],
               legacy |-> loadData_migrated(FALSE), load |-> getMemories_start,
               dbState |-> getDB(db)]
    ELSE [task |-> [pc |-> "loading", queue |-> <<>>],
          legacy |-> IF legacy.kind \in {"array", "object"} THEN LegacyAbsent ELSE legacy,
          load |-> getMemories_start, dbState |-> dbState]

\* setAppState('APP') and the effect it triggers
EnterApp(db) ==
    LET r == loadData_start(db)
    IN  /\ appState' = "APP"
        /\ task' = r.task
        /\ legacy' = r.legacy
        /\ load' = r.load
        /\ dbState' = r.dbState

LoadingComplete ==
    /\ appState = "LOADING"
    /\ appState' = "AUTH"
    /\ UNCHANGED <<currentUser, legacy, cameraActive, capturedImage, isGenerating,
                   task, post, posted, permission>>
    /\ UNCHANGED dbVars
    /\ UNCHANGED streakVars
    /\ UNCHANGED analysis

\* handleSubmit of the password form and the onUnlock of App
Unlock(input, db) ==
    /\ appState = "AUTH"
    /\ LET user == USERS(normalize(input))
       IN  IF user = "undefined"
           THEN UNCHANGED <<appState, currentUser, task, legacy, load, dbState>>
           ELSE /\ currentUser' = user
                /\ IF user = "saeed"
                   THEN /\ appState' = "SPECIAL_LOADING"
                        /\ UNCHANGED <<task, legacy, load, dbState>>
                   ELSE EnterApp(db)
    /\ UNCHANGED <<cameraActive, capturedImage, isGenerating, post, posted, permission>>
    /\ UNCHANGED <<configured, local, remote, inflight, save, sync, ops>>
    /\ UNCHANGED streakVars
    /\ UNCHANGED analysis

\* setTimeout(() => setAppState('APP'), 4000)
SpecialTimer(db) ==
    /\ appState = "SPECIAL_LOADING"
    /\ EnterApp(db)
    /\ UNCHANGED <<currentUser, cameraActive, capturedImage, isGenerating, post, posted, permission>>
    /\ UNCHANGED <<configured, local, remote, inflight, save, sync, ops>>
    /\ UNCHANGED streakVars
    /\ UNCHANGED analysis

\* `await saveMemory(m)` of the migration settles: the next entry, or
\* removeItem after the last, or the catch; then getMemories()
MigratePut(ok) ==
    /\ task.pc = "migrating"
    /\ LET r == saveMemory_put(Head(task.queue), ok)
       IN  /\ local' = r.local
           /\ inflight' = r.inflight
    /\ IF ok /\ Len(task.queue) > 1
       THEN /\ task' = [task EXCEPT !.queue = Tail(task.queue)]
            /\ UNCHANGED <<legacy, load>>
       ELSE /\ task' = [pc |-> "loading", queue |-> <<>>]
            /\ legacy' = loadData_migrated(ok)
            /\ load' = getMemories_start
    /\ UNCHANGED <<appState, currentUser, cameraActive, capturedImage, isGenerating,
                   post, posted, permission>>
    /\ UNCHANGED <<configured, dbState, remote, save, sync, ops>>
    /\ UNCHANGED streakVars
    /\ UNCHANGED analysis

\* startCamera(): setCameraActive(true) when getUserMedia resolves, (false)
\* when it rejects; the browser remembers what the user answered
startCamera == permission

\* the promise of syncLocalToCloud() once settled: .then logs the counts,
\* .catch logs the error, and nothing keeps them
autoSync(s) == IF s.pc \in {"done", "rejected"} THEN SyncIdle ELSE s

\* loadData once getMemories() resolved: the list and the streak are set; for
\* the owner the reconciliation and the camera are started
Loaded(result, st) ==
    /\ task' = [task EXCEPT !.pc = "done"]
    /\ load' = LoadIdle
    /\ memories' = result
    /\ streak' = calculateStreak(result)
    /\ IF currentUser = "saeed"
       THEN /\ sync' = autoSync(syncLocalToCloud_start(st))
            /\ cameraActive' = startCamera
       ELSE UNCHANGED <<sync, cameraActive>>

AppLoadCloudResponse(outcome, db) ==
    /\ task.pc = "loading"
    /\ load.pc = "fetching"
    /\ LET r == getMemories_cloud(getMemoriesFromCloud(outcome),
                                  IF outcome = "ok" THEN "empty" ELSE outcome)
       IN  IF r.pc = "done"
           THEN /\ dbState' = IF currentUser = "saeed" THEN getDB(db) ELSE dbState
                /\ Loaded(r.result, dbState')
           ELSE /\ load' = r
                /\ UNCHANGED <<task, memories, streak, sync, cameraActive, dbState>>
    /\ UNCHANGED <<appState, currentUser, legacy, capturedImage, isGenerating, post,
                   posted, permission>>
    /\ UNCHANGED <<configured, local, remote, inflight, save, ops>>
    /\ UNCHANGED <<tz, now>>
    /\ UNCHANGED analysis

\* the fallback of getMemories(); when the store cannot be opened getMemories
\* and loadData reject, and nothing catches it
AppLoadLocal(db) ==
    /\ task.pc = "loading"
    /\ load.pc = "local"
    /\ dbState' = getDB(db)
    /\ IF dbState' = "open"
       THEN Loaded(getMemories_local(local), dbState')
       ELSE /\ load' = LoadIdle
            /\ task' = [task EXCEPT !.pc = "failed"]
            /\ UNCHANGED <<memories, streak, sync, cameraActive>>
    /\ UNCHANGED <<appState, currentUser, legacy, capturedImage, isGenerating, post,
                   posted, permission>>
    /\ UNCHANGED <<configured, local, remote, inflight, save, ops>>
    /\ UNCHANGED <<tz, now>>
    /\ UNCHANGED analysis

\* an upsert of the reconciliation settles
AutoSyncPushDone(outcome) ==
    /\ sync.pc = "pushing"
    /\ remote' = upsert(remote, Head(sync.queue), outcome)
    /\ sync' = autoSync(syncLoop(syncCount(sync, outcome)))
    /\ UNCHANGED <<configured, dbState, local, inflight, save, load, ops>>
    /\ UNCHANGED streakVars
    /\ UNCHANGED appVars
    /\ UNCHANGED analysis

\* the owner's screen is shown to every user but 'shahad'
OwnerScreen == appState = "APP" /\ currentUser # "shahad"

\* the Enable button
EnableCamera ==
    /\ OwnerScreen
    /\ ~cameraActive /\ ~capturedImage
    /\ cameraActive' = startCamera
    /\ UNCHANGED <<appState, currentUser, legacy, capturedImage, isGenerating, task,
                   post, posted, permission>>
    /\ UNCHANGED dbVars
    /\ UNCHANGED streakVars
    /\ UNCHANGED analysis

\* the submit button is enabled
CanSubmit == OwnerScreen /\ ~isGenerating /\ (capturedImage \/ cameraActive)

\* handlePost without a captured image: takePhoto(), return
TakePhoto ==
    /\ CanSubmit
    /\ ~capturedImage
    /\ capturedImage' = TRUE
    /\ UNCHANGED <<appState, currentUser, legacy, cameraActive, isGenerating, task,
                   post, posted, permission>>
    /\ UNCHANGED dbVars
    /\ UNCHANGED streakVars
    /\ UNCHANGED analysis

\* a handlePost that shows the entry whether or not it was saved
handlePost_settled_optimistic(p, m, saved) ==
    [memories |-> <<m>> \o p.seen,
     streak |-> calculateStreak(<<m>> \o p.seen)]

\* handlePost after `await saveMemory(newMemory)`: [newMemory, ...memories] with
\* the memories of the render the handler was created in, and the streak of
\* that list; the catch only logs
handlePost_settled(p, m, saved) ==
    IF saved
    THEN [memories |-> <<m>> \o p.seen,
          streak |-> calculateStreak(<<m>> \o p.seen)]
    ELSE [memories |-> memories, streak |-> streak]

\* a handlePost that resets the busy flag at the end of the try
handlePost_finally_inTry(saved) == ~saved

\* finally { setIsGenerating(false) }: the busy flag when handlePost has
\* ended, the entry saved or not
handlePost_finally(saved) == FALSE

\* handlePost with a captured image, up to `await db.put`; nothing was typed
\* and no note stuck, so the mood is "Vibing"; Date.now() reads t, which is
\* behind the last reading when the wall clock was set back.  When the store
\* cannot be opened saveMemory rejects and handlePost runs to its end
PostStart(db, t) ==
    /\ CanSubmit
    /\ capturedImage
    /\ posted.n < MaxPosts
    /\ now' = t
    /\ posted' = [n |-> posted.n + 1, id |-> EntryAt(t).id]
    /\ dbState' = getDB(db)
    /\ LET s == saveMemory_start(EntryAt(t), dbState')
           p == [pc |-> "saving", seen |-> memories]
           h == handlePost_settled(p, EntryAt(t), FALSE)
       IN  IF s.pc = "put"
           THEN /\ save' = s
                /\ post' = p
                /\ isGenerating' = TRUE
                /\ UNCHANGED <<memories, streak>>
           ELSE /\ save' = SaveIdle
                /\ post' = PostIdle
                /\ isGenerating' = handlePost_finally(FALSE)
                /\ memories' = h.memories
                /\ streak' = h.streak
    /\ UNCHANGED <<appState, currentUser, legacy, cameraActive, capturedImage, task,
                   permission>>
    /\ UNCHANGED <<configured, local, remote, inflight, load, sync, ops>>
    /\ UNCHANGED tz
    /\ UNCHANGED analysis

\* `await db.put` of the post settles, and handlePost runs to its end
PostPut(ok) ==
    /\ post.pc = "saving"
    /\ LET r == saveMemory_put(save.entry, ok)
           h == handlePost_settled(post, save.entry, ok)
       IN  /\ local' = r.local
           /\ inflight' = r.inflight
           /\ memories' = h.memories
           /\ streak' = h.streak
    /\ save' = SaveIdle
    /\ post' = PostIdle
    /\ isGenerating' = handlePost_finally(ok)
    /\ UNCHANGED <<appState, currentUser, legacy, cameraActive, capturedImage, task,
                   posted, permission>>
    /\ UNCHANGED <<configured, dbState, remote, load, sync, ops>>
    /\ UNCHANGED <<tz, now>>
    /\ UNCHANGED analysis

\* retakePhoto(): the captured image is dropped and the camera started again.
\* It is called by the Retake button, shown while an image is captured, and by
\* the timer a saved post sets (4 s later), which finds the image of the post
\* or, after a Retake, does what the Enable button does
RetakePhoto ==
    /\ OwnerScreen
    /\ capturedImage
    /\ capturedImage' = FALSE
    /\ cameraActive' = startCamera
    /\ UNCHANGED <<appState, currentUser, legacy, isGenerating, task, post, posted, permission>>
    /\ UNCHANGED dbVars
    /\ UNCHANGED streakVars
    /\ UNCHANGED analysis

InitApp ==
    /\ configured \in BOOLEAN
    /\ dbState = "unopened"
    /\ local = {}
    /\ remote = {}
    /\ inflight = {}
    /\ save = SaveIdle
    /\ load = LoadIdle
    /\ sync = SyncIdle
    /\ ops = 0
    /\ tz = "fixed"
    /\ now = Midnight(MaxDay) + 12 * HourMs
    /\ memories = <<>>
    /\ streak = 0
    /\ appState = "LOADING"
    /\ currentUser = "null"
    /\ legacy \in LegacyValues
    /\ cameraActive = FALSE
    /\ capturedImage = FALSE
    /\ isGenerating = FALSE
    /\ task = TaskIdle
    /\ post = PostIdle
    /\ posted = NonePosted
    /\ permission \in BOOLEAN
    /\ analysis = [pc |-> "idle", text |-> "", response |-> "none"]

\* what openDB can still answer: its first answer is kept
DbChoices == IF dbState = "unopened" THEN DbOutcomes ELSE {dbState}

\* what the server answers to an upsert of the App; a thrown request leaves
\* the App where a refused one does
Replies == {"ok", "error"}

NextApp ==
    \/ LoadingComplete
    \/ \E input \in Inputs, db \in DbChoices : Unlock(input, db)
    \/ \E db \in DbChoices : SpecialTimer(db)
    \/ \E ok \in BOOLEAN : MigratePut(ok)
    \/ \E o \in Outcomes, db \in DbChoices : AppLoadCloudResponse(o, db)
    \/ \E db \in DbChoices : AppLoadLocal(db)
    \/ \E m \in inflight, o \in Replies : PushSettle(m, o)
    \/ \E o \in Replies : AutoSyncPushDone(o)
    \/ EnableCamera
    \/ TakePhoto
    \/ \E db \in DbChoices, t \in AppTimes : PostStart(db, t)
    \/ \E ok \in BOOLEAN : PostPut(ok)
    \/ RetakePhoto

SpecApp == InitApp /\ [][NextApp]_vars


(***************************************************************************)
(* analyzeMood (the Gemini service).                                       *)
(***************************************************************************)
\* some of the strings a response can hold in each field
Mouths == {"smile01", "happy01", "sad01"}
Eyes == {"neutral", "happy01", "wink"}
Eyebrows == {"neutral01", "angry01", "sad01"}
Colors == {"FFD700", "FF69B4"}
Summaries == {"Just Vibes", "Sleepy Girl"}

MoodAnalyses ==
    [mouth : Mouths, eyes : Eyes, eyebrows : Eyebrows, bgColor : Colors,
     summary : Summaries]

\* the object of the catch block
Fallback ==
    [mouth |-> "smile01", eyes |-> "neutral", eyebrows |-> "neutral01",
     bgColor |-> "FFD700", summary |-> "Just Vibes"]

\* how ai.models.generateContent settles: it throws, or resolves with no
\* text, with text that is no JSON, or with the JSON text of an object
Responses ==
    {[kind |-> k, value |-> v] : k \in {"throw", "empty", "unparsable"},
                                 v \in {[Fallback EXCEPT !.mouth = "sad01"]}}
    \cup {[kind |-> "json", value |-> v] : v \in MoodAnalyses}

\* JSON.parse(response.text)
JSON_parse(response) ==
    IF response.kind = "json"
    THEN [threw |-> FALSE, value |-> response.value]
    ELSE [threw |-> TRUE, value |-> response.value]

\* an analyzeMood whose JSON.parse is outside the try
analyzeMood_parseOutsideTry(response) ==
    IF response.kind = "throw" THEN [rejected |-> FALSE, value |-> Fallback]
    ELSE IF response.kind = "empty" THEN [rejected |-> FALSE, value |-> Fallback]
    ELSE [rejected |-> JSON_parse(response).threw, value |-> JSON_parse(response).value]

\* how the promise of analyzeMood(text) settles:
\* try { response = await generateContent(...); if (response.text) return
\* JSON.parse(response.text); throw ... } catch { return the fallback }
analyzeMood(response) ==
    IF response.kind = "throw" THEN [rejected |-> FALSE, value |-> Fallback]
    ELSE IF response.kind = "empty" THEN [rejected |-> FALSE, value |-> Fallback]
    ELSE IF JSON_parse(response).threw THEN [rejected |-> FALSE, value |-> Fallback]
    ELSE [rejected |-> FALSE, value |-> JSON_parse(response).value]

\* the moods analyzeMood is called with
Texts == {"sleepy", ""}

AnalysisIdle == [pc |-> "idle", text |-> "", response |-> "none"]

\* analyzeMood(text) up to `await ai.models.generateContent`
AnalyzeStart(text) ==
    /\ analysis.pc # "pending"
    /\ analysis' = [pc |-> "pending", text |-> text, response |-> "none"]
    /\ UNCHANGED dbVars
    /\ UNCHANGED streakVars
    /\ UNCHANGED appVars

AnalyzeSettled(response) ==
    /\ analysis.pc = "pending"
    /\ analysis' = [pc |-> "done", text |-> analysis.text, response |-> response.kind,
                    sent |-> response.value, ret |-> analyzeMood(response)]
    /\ UNCHANGED dbVars
    /\ UNCHANGED streakVars
    /\ UNCHANGED appVars

InitMood ==
    /\ DbIdle
    /\ StreakIdle
    /\ AppIdle
    /\ analysis = AnalysisIdle

NextMood ==
    \/ \E text \in Texts : AnalyzeStart(text)
    \/ \E response \in Responses : AnalyzeSettled(response)

SpecMood == InitMood /\ [][NextMood]_vars


(***************************************************************************)
(* Properties of the persistence layer, checked under Spec.                *)
(***************************************************************************)
CloudFailed == load.cloud \in {"unconfigured", "error", "throw"}

\* C1: whenever the cloud returns a non-empty list, getMemories returns
\* exactly those rows, field by field and in the cloud's order, and so no
\* entry that only Local holds.
C1_FullReplaceOnRead ==
    (load.pc = "done" /\ load.cloud = "rows") =>
        /\ Len(load.rows) > 0
        /\ Len(load.result) = Len(load.rows)
        /\ \A i \in 1..Len(load.rows) :
              /\ load.result[i].id = load.rows[i].id
              /\ load.result[i].date = load.rows[i].date
              /\ load.result[i].mood = load.rows[i].mood
              /\ load.result[i].imageUrl = load.rows[i].image_url
              /\ load.result[i].summary = load.rows[i].summary
        /\ \A m \in local :
              (\A i \in 1..Len(load.rows) : load.rows[i].id # m.id)
                  => m \notin Range(load.result)

\* two entries were saved, the cloud returned only one of them, and the load
\* returned only that one
C1_Witness ==
    /\ load.pc = "done" /\ load.cloud = "rows"
    /\ Cardinality(local) = 2
    /\ Len(load.rows) = 1
    /\ Len(load.result) = 1
    /\ \E m \in local : m.id # load.result[1].id

\* C2: with the cloud unreachable or unconfigured, the getMemories that
\* follows a resolved saveMemory(e) returns a list containing e.
C2_SavedThenLoaded ==
    (load.pc = "done" /\ CloudFailed /\ save.pc = "resolved")
        => save.entry \in Range(load.result)

\* the load after the second of two saves, the cloud unreachable
C2_Witness ==
    /\ load.pc = "done" /\ CloudFailed /\ save.pc = "resolved"
    /\ configured
    /\ Len(load.result) = 2
    /\ save.entry \in Range(load.result)

\* C3: the Local put comes before any upsert of the entry is started, and a
\* saveMemory whose open or put fails rejects without starting an upsert.
C3_LocalBeforeRemote ==
    [][/\ \A m \in Memories :
             (m \notin inflight /\ m \in inflight')
                 => (save.entry = m /\ save'.pc = "resolved" /\ m \in local')
       /\ (save.pc = "put" /\ save'.pc = "resolved") => save.entry \in local'
       /\ (save.pc # "rejected" /\ save'.pc = "rejected")
             => (inflight' = inflight /\ remote' = remote /\ local' = local)
      ]_vars

\* a put failed after an earlier save had succeeded, and nothing of the
\* rejected entry is in flight
C3_Witness ==
    /\ configured
    /\ save.pc = "rejected" /\ save.cause = "put"
    /\ local # {}
    /\ save.entry \notin local
    /\ save.entry \notin inflight

\* C4: saveMemory resolves with the Local put, while its upsert is still in
\* flight, and no outcome of the upsert changes the outcome of the call or the
\* getMemories in progress; saveMemory rejects only for a Local failure.
C4_SaveDoesNotAwaitRemote ==
    [][/\ \A m \in Memories :
             (m \notin inflight /\ m \in inflight') => save'.pc = "resolved"
       /\ \A m \in Memories :
             (m \in inflight /\ m \notin inflight') => (save' = save /\ load' = load)
       /\ save'.pc = "rejected" => save'.cause \in {"open", "put"}
      ]_vars

\* a getMemories completed while the upsert of the resolved save never did
C4_Witness ==
    /\ save.pc = "resolved"
    /\ save.entry \in inflight
    /\ load.pc = "done"

\* C5: when the cloud returns nothing or fails, getMemories returns the
\* entries of Local, each once, by the numeric value of id, largest first.
C5_LocalFallbackSorted ==
    (load.pc = "done" /\ load.cloud # "rows") =>
        /\ Range(load.result) = local
        /\ Len(load.result) = Cardinality(local)
        /\ \A i \in 1..(Len(load.result) - 1) :
              Number(load.result[i].id) > Number(load.result[i + 1].id)

\* the three entries "11", "10", "9" came back in this order
C5_Witness ==
    /\ load.pc = "done" /\ load.cloud \in {"empty", "error", "throw", "unconfigured"}
    /\ Len(load.result) = 3
    /\ load.result[2].id = <<1, 0>>
    /\ load.result[3].id = <<9>>

\* C6 as claimed: syncLocalToCloud never raises.
C6_NeverRaises == sync.pc # "rejected"

\* C6 as amended: syncLocalToCloud rejects only when the Local store cannot be
\* opened, before any entry is enumerated; no outcome of a push makes it
\* reject, each is counted, and the counts add up to the entries enumerated,
\* synced being the number of upserts the server applied.
C6_SyncCounts ==
    /\ sync.pc = "rejected" => (dbState = "failed" /\ sync.n = 0)
    /\ sync.pc = "pushing" => sync.synced + sync.failed + Len(sync.queue) = sync.n
    /\ sync.pc = "done" =>
          /\ Len(sync.queue) = 0
          /\ sync.synced + sync.failed = sync.n
          /\ sync.synced = sync.applied

\* a reconciliation ended with one push applied and one failed
C6_Witness ==
    /\ sync.pc = "done"
    /\ sync.synced >= 1
    /\ sync.failed >= 1

\* C7: the cloud gains an id only when an upsert of that id settles with
\* success; an upsert is started only by saveMemory of that entry or by a
\* syncLocalToCloud run; a failed upsert is dropped and leaves the cloud as it
\* was.  getMemories and saves of other entries never add the id.
C7_NoAutomaticRetry ==
    [][/\ \A i \in Ids :
             (i \notin IdsOf(remote) /\ i \in IdsOf(remote')) =>
                 \/ \E m \in inflight : m.id = i /\ inflight' = inflight \ {m}
                 \/ sync.pc = "pushing" /\ Head(sync.queue).id = i /\ sync' # sync
       /\ \A m \in Memories :
             (m \notin inflight /\ m \in inflight')
                 => (save.pc = "put" /\ save.entry = m)
       /\ (sync.pc # "pushing" /\ sync'.pc = "pushing") => ops' = ops + 1
       /\ \A m \in Memories, o \in {"error", "throw"} :
             PushSettle(m, o) => (remote' = remote /\ m \notin inflight')
       /\ \A o \in {"error", "throw"} : SyncPushDone(o) => remote' = remote
      ]_vars

\* the push of a saved entry failed, and the entry is still absent from the
\* cloud after a getMemories and with nothing in flight
C7_Witness ==
    /\ configured
    /\ load.pc = "done"
    /\ inflight = {}
    /\ \E m \in local : m.id \notin IdsOf(remote)

\* C8 as claimed: after a syncLocalToCloud in which every push succeeded, and
\* no operation since, Local and the cloud hold the same ids.
C8_StoresAgree ==
    (sync.pc = "done" /\ sync.quiet /\ sync.failed = 0)
        => IdsOf(local) = IdsOf(remote)

\* C17: Local is a map keyed by id: a put leaves exactly the put entry under
\* its id and every other entry as it was, a put of an entry already stored
\* changes nothing, and deleteMemory of an absent id changes nothing.
C17_LocalIsKeyedMap ==
    [][/\ (save.pc = "put" /\ save'.pc = "resolved") =>
             /\ {x \in local' : x.id = save.entry.id} = {save.entry}
             /\ {x \in local' : x.id # save.entry.id}
                   = {x \in local : x.id # save.entry.id}
             /\ save.entry \in local => local' = local
       /\ \A id \in Ids :
             (id \notin IdsOf(local) /\ \E db \in DbOutcomes : DeleteMemory(id, db))
                 => local' = local
       /\ \A id \in Ids :
             (dbState' = "open" /\ \E db \in DbOutcomes : DeleteMemory(id, db))
                 => local' = {x \in local : x.id # id}
      ]_vars

\* the entry with id "9" was saved, pushed, then saved again with another
\* mood beside a second entry
C17_Witness ==
    /\ save.pc = "resolved"
    /\ save.entry = Memory(<<9>>, "Noted")
    /\ ToCloudRow(Memory(<<9>>, "Vibing")) \in remote
    /\ Cardinality(local) = 2
    /\ Memory(<<9>>, "Noted") \in local

C25_FieldRoundTrip ==
    /\ \A e \in Memories : FromCloudRow(ToCloudRow(e)) = e
    /\ (load.pc = "done" /\ load.cloud = "rows")
          => /\ Len(load.result) = Len(load.rows)
             /\ \A i \in 1..Len(load.rows) :
                   \E e \in Memories :
                       /\ load.rows[i] = ToCloudRow(e)
                       /\ load.result[i] = e
                       /\ DOMAIN load.result[i] =
                             {"id", "date", "mood", "imageUrl", "summary"}

\* a load answered by the cloud returned the second version of entry "9",
\* which was pushed and is still held locally
C25_Witness ==
    /\ load.pc = "done" /\ load.cloud = "rows"
    /\ Len(load.result) >= 1
    /\ load.result[Len(load.result)] = Memory(<<9>>, "Noted")
    /\ Memory(<<9>>, "Noted") \in local
    /\ ToCloudRow(Memory(<<9>>, "Noted")) \in remote


(***************************************************************************)
(* Properties of calculateStreak, checked under SpecStreak.                *)
(***************************************************************************)
TsOf(m) == Number(m.id)

\* one entry per day, on consecutive calendar days, the first one today
IsDailyRun(mems) ==
    /\ Len(mems) >= 1
    /\ DayOf(TsOf(mems[1])) = DayOf(now)
    /\ \A i \in 2..Len(mems) : DayOf(TsOf(mems[i - 1])) - DayOf(TsOf(mems[i])) = 1

IsIdDescending(mems) ==
    \A i \in 2..Len(mems) : TsOf(mems[i - 1]) >= TsOf(mems[i])

RECURSIVE InsertSorted(_, _)
\* e put at its place in an id-descending list
InsertSorted(mems, e) ==
    IF Len(mems) = 0 THEN <<e>>
    ELSE IF TsOf(Head(mems)) >= TsOf(e) THEN <<Head(mems)>> \o InsertSorted(Tail(mems), e)
    ELSE <<e>> \o mems

\* C9 as claimed: a list of one entry per day on consecutive calendar days,
\* the first one today, has a streak equal to its length.
C9_DailyRunStreak ==
    IsDailyRun(memories) => streak = Len(memories)

\* C10: an extra entry on the calendar day of an entry of an id-descending
\* list, inserted at its sorted position, leaves calculateStreak unchanged.
C10_SameDayInsert ==
    IsIdDescending(memories) =>
        \A ts \in Times :
            (\E i \in 1..Len(memories) : DayOf(TsOf(memories[i])) = DayOf(ts))
                => calculateStreak(InsertSorted(memories, EntryAt(ts))) = streak

\* a list with a streak of two to which a second entry of its older day can
\* be added
C10_Witness ==
    /\ IsIdDescending(memories)
    /\ Len(memories) = 2
    /\ streak = 2
    /\ \E ts \in Times :
          /\ DayOf(ts) = DayOf(TsOf(memories[2]))
          /\ ts # TsOf(memories[2])
          /\ calculateStreak(InsertSorted(memories, EntryAt(ts))) = 2

\* the first index whose entry is more than one calendar day older than the
\* entry before it, 0 when there is none
FirstGap(mems) ==
    LET gaps == {i \in 2..Len(mems) :
                    DayOf(TsOf(mems[i - 1])) - DayOf(TsOf(mems[i])) > 1}
    IN  IF gaps = {} THEN 0 ELSE CHOOSE i \in gaps : \A j \in gaps : i <= j

StartsTodayOrYesterday(mems) ==
    /\ Len(mems) >= 1
    /\ DayOf(now) - DayOf(TsOf(mems[1])) \in {0, 1}

\* C11 as claimed: in an id-descending list that starts today or yesterday,
\* the first pair more than one calendar day apart ends the walk, and the
\* streak is the number of distinct calendar days before that gap.
C11_GapEndsWalk ==
    (IsIdDescending(memories) /\ StartsTodayOrYesterday(memories)
        /\ FirstGap(memories) # 0)
        => streak = Cardinality({DayOf(TsOf(memories[i])) :
                                    i \in 1..(FirstGap(memories) - 1)})

\* C12 as claimed: the streak is 0 exactly when the list is empty or its first
\* entry is of neither today nor yesterday.
C12_ZeroStreak ==
    (streak = 0) <=> ~StartsTodayOrYesterday(memories)

\* one entry per day, on consecutive calendar days, the first one yesterday
IsRunFromYesterday(mems) ==
    /\ Len(mems) >= 1
    /\ DayOf(now) - DayOf(TsOf(mems[1])) = 1
    /\ \A i \in 2..Len(mems) : DayOf(TsOf(mems[i - 1])) - DayOf(TsOf(mems[i])) = 1

\* C13 as claimed: a list covering n consecutive calendar days whose newest
\* day is yesterday has a streak of n.
C13_AliveThroughYesterday ==
    IsRunFromYesterday(memories) => streak = Len(memories)


\* position i holds an entry of a later calendar day than position i - 1
OutOfOrderAt(mems, i) == DayOf(TsOf(mems[i - 1])) < DayOf(TsOf(mems[i]))

\* C23: when an adjacent pair of the list is out of order (the earlier-listed
\* entry on an earlier calendar day than the next one), calculateStreak stops
\* at that pair: the streak is the streak of the list before the pair's second
\* entry, and so at most the number of entries before it.
C23_DisorderEndsWalk ==
    \A i \in 2..Len(memories) :
        OutOfOrderAt(memories, i)
            => /\ streak = calculateStreak(SubSeq(memories, 1, i - 1))
               /\ streak <= i - 1

\* today's entry, yesterday's entry, then today's again: the walk counted the
\* first two and stopped at the third
C23_Witness ==
    /\ Len(memories) = 3
    /\ OutOfOrderAt(memories, 3)
    /\ DayOf(TsOf(memories[1])) = DayOf(now)
    /\ streak = 2

\* the streak counted in calendar days: the number of consecutive calendar
\* days, ending today or yesterday, that the head of the list covers
RECURSIVE CalendarWalk(_, _, _)
CalendarWalk(mems, i, n) ==
    IF i > Len(mems) THEN n
    ELSE LET d == DayOf(TsOf(mems[i - 1])) - DayOf(TsOf(mems[i]))
         IN  IF d = 1 THEN CalendarWalk(mems, i + 1, n + 1)
             ELSE IF d = 0 THEN CalendarWalk(mems, i + 1, n)
             ELSE n

CalendarStreak(mems) ==
    IF Len(mems) = 0 THEN 0
    ELSE IF DayOf(now) - DayOf(TsOf(mems[1])) \in {0, 1} THEN CalendarWalk(mems, 2, 1)
    ELSE 0

\* C24 as claimed: calculateStreak depends on local calendar days only: the
\* streak is the one counted in calendar days, also across a day of 23 or 25
\* hours.
C24_CalendarDaysOnly == streak = CalendarStreak(memories)


(***************************************************************************)
(* Properties of the App component, checked under SpecApp.                 *)
(***************************************************************************)
\* C14: every list calculateStreak is called on (the list getMemories()
\* returned on entering the app, and [newEntry, ...memories] of handlePost) is
\* ordered by numerically descending id.
C14_ListsIdDescending == IsIdDescending(memories)

\* C15: entries created by distinct post actions have distinct ids, and a
\* later post has a numerically greater id than every earlier one.
C15_PostIdsIncrease ==
    [][(posted.n > 0 /\ posted'.n = posted.n + 1)
          => Number(posted'.id) > Number(posted.id)]_vars

\* C16: no operation of the application changes the value Local stores under
\* an id it already holds.
C16_NeverUpdatedInPlace ==
    [][\A x \in local : x.id \in IdsOf(local') => x \in local']_vars

\* C19: in a session unlocked as 'shahad' no write reaches Local or Remote:
\* saveMemory, saveMemoryToCloud and syncLocalToCloud are never invoked, also
\* not by the load on entering the app.
C19_ViewerReadOnly ==
    [][currentUser' = "shahad" =>
          /\ task'.pc # "migrating"
          /\ local' = local /\ inflight' = inflight /\ remote' = remote
          /\ save' = save /\ sync' = sync]_vars

\* C20: when the Local write of a post fails (the store cannot be opened, or
\* the put fails), handlePost ends with the list and the streak as they were,
\* Local unchanged and no upsert started; and an upsert is only ever started
\* for an entry Local holds, a row only ever written for an entry in flight
\* or in the reconciliation's queue.
C20_FailedPostSavesNothing ==
    [][/\ ((\/ post.pc = "saving" /\ post'.pc = "idle" /\ save.entry \notin local'
            \/ posted'.n = posted.n + 1 /\ post'.pc = "idle")
           => /\ memories' = memories /\ streak' = streak
              /\ local' = local /\ inflight' = inflight /\ remote' = remote
              /\ ~isGenerating' /\ save'.pc = "idle")
       /\ \A m \in inflight' \ inflight : m \in local'
       /\ \A r \in remote' \ remote :
             \E m \in inflight \cup Range(sync.queue) : r = ToCloudRow(m)
      ]_vars

\* the owner's first post failed at the put: the store is open, the entry is
\* in no store and the list is the empty one that was loaded
C20_Witness ==
    /\ currentUser = "saeed" /\ task.pc = "done"
    /\ dbState = "open"
    /\ posted.n = 1 /\ post.pc = "idle"
    /\ posted.id \notin IdsOf(local)
    /\ local = {} /\ inflight = {} /\ remote = {}
    /\ memories = <<>> /\ streak = 0
    /\ ~isGenerating /\ capturedImage


\* what the render of the owner's screen reads, the busy flag aside
Screen == <<appState, currentUser, memories, streak, cameraActive, capturedImage>>

\* C21: when the Local write of a post fails (the store cannot be opened, or
\* the put fails), the application shows the failure: what is on the screen
\* when handlePost has ended differs from what was there before the post.
C21_FailedPostShowsError ==
    [][(\/ PostPut(FALSE)
        \/ posted'.n = posted.n + 1 /\ post'.pc = "idle")
       => (Screen' # Screen \/ isGenerating')]_vars


\* C26: the legacy array is migrated entry by entry through saveMemory, each
\* entry as it is (its original id); the legacy key is removed only after the
\* last entry was saved; when a save fails (the store cannot be opened, or a
\* put fails) the key is kept and the load of entries is started all the same.
C26_LegacyMigration ==
    [][/\ (task.pc = "migrating" /\ task' # task)
          => LET m == Head(task.queue)
             IN  \/ /\ local' = Put(local, m)
                    /\ IF Len(task.queue) > 1
                       THEN /\ task' = [task EXCEPT !.queue = Tail(task.queue)]
                            /\ legacy' = legacy
                       ELSE /\ legacy'.kind = "absent"
                            /\ task'.pc = "loading"
                            /\ load'.pc \in {"fetching", "local"}
                 \/ /\ local' = local
                    /\ legacy' = legacy
                    /\ task'.pc = "loading"
                    /\ load'.pc \in {"fetching", "local"}
       /\ (legacy.kind = "array" /\ task.pc = "none" /\ task'.pc # "none")
          => \/ task' = [pc |-> "migrating", queue |-> legacy.items] /\ legacy' = legacy
             \/ /\ dbState' = "failed" /\ legacy' = legacy
                /\ task'.pc = "loading" /\ load'.pc \in {"fetching", "local"}
       /\ (legacy.kind = "array" /\ legacy' # legacy)
          => /\ legacy'.kind = "absent"
             /\ \A i \in 1..Len(legacy.items) : legacy.items[i].id \in IdsOf(local')
      ]_vars

\* the first legacy entry was saved, the put of the second failed: the key is
\* still there and the load went on and showed the one entry
C26_Witness ==
    /\ legacy.kind = "array"
    /\ task.pc = "done"
    /\ posted.n = 0
    /\ legacy.items[1] \in local
    /\ legacy.items[2].id \notin IdsOf(local)
    /\ Len(memories) = 1 /\ memories[1] = legacy.items[1]


\* C27: the password screen is left only through onUnlock with one of the two
\* roles: whenever the application leaves AUTH, or sets the current user, the
\* user is 'saeed' or 'shahad'; every other input leaves the application on
\* the password screen with no user.
C27_OnlyConfiguredPasswords ==
    [][/\ (appState = "AUTH" /\ appState' # "AUTH") => currentUser' \in {"saeed", "shahad"}
       /\ currentUser' # currentUser => currentUser' \in {"saeed", "shahad"}
       /\ appState' = "AUTH" => currentUser' = "null"]_vars


\* C28: the screen state only moves forward, LOADING -> AUTH ->
\* SPECIAL_LOADING -> APP for the owner and LOADING -> AUTH -> APP for the
\* viewer; SPECIAL_LOADING is left for APP only and APP is never left; the
\* entries are loaded only in APP, and the reconciliation and the camera are
\* started only in APP and only for the owner.
C28_ScreenFlow ==
    [][/\ appState' # appState
          => \/ appState = "LOADING" /\ appState' = "AUTH"
             \/ appState = "AUTH" /\ appState' = "SPECIAL_LOADING" /\ currentUser' = "saeed"
             \/ appState = "AUTH" /\ appState' = "APP" /\ currentUser' = "shahad"
             \/ appState = "SPECIAL_LOADING" /\ appState' = "APP" /\ currentUser' = "saeed"
       /\ (task' # task \/ load' # load) => appState' = "APP"
       /\ sync' # sync => appState' = "APP" /\ currentUser' = "saeed"
       /\ cameraActive' # cameraActive => appState' = "APP" /\ currentUser' = "saeed"
      ]_vars


\* C29: handlePost without a captured image takes the photo and does nothing
\* else: no entry, no save.  With a captured image it creates one entry and
\* calls saveMemory once, for that entry: while it waits the busy flag is set,
\* no second post starts, and when it ends at most that entry was written.
\* The busy flag is false again when handlePost has ended, saved or not.
C29_HandlePostSteps ==
    [][/\ (capturedImage' /\ ~capturedImage)
          => /\ posted' = posted /\ post' = post /\ save' = save
             /\ local' = local /\ inflight' = inflight /\ remote' = remote
             /\ memories' = memories /\ isGenerating' = isGenerating
       /\ posted' # posted
          => /\ capturedImage /\ ~isGenerating /\ post.pc = "idle"
             /\ posted'.n = posted.n + 1
             /\ \/ /\ post'.pc = "saving" /\ isGenerating'
                   /\ save' = [pc |-> "put", entry |-> save'.entry, cause |-> "none"]
                   /\ save'.entry.id = posted'.id
                   /\ local' = local
                \/ /\ post'.pc = "idle" /\ ~isGenerating'
                   /\ save'.pc = "idle" /\ dbState' = "failed"
                   /\ local' = local /\ inflight' = inflight
       /\ (post.pc = "saving" /\ post'.pc = "idle")
          => /\ ~isGenerating'
             /\ save'.pc = "idle"
             /\ local' \in {local, Put(local, save.entry)}
             /\ inflight' \subseteq inflight \cup {save.entry}
       /\ isGenerating' <=> post'.pc = "saving"
      ]_vars

\* the owner's second post failed at the put after the first was saved, and
\* the busy flag is off again
C29_Witness ==
    /\ posted.n = 2 /\ post.pc = "idle" /\ ~isGenerating
    /\ Cardinality(local) = 1
    /\ posted.id \notin IdsOf(local)
    /\ Len(memories) = 1
    /\ capturedImage


\* C30: after a successful post the in-memory list is the new entry followed
\* by the list as it was just before, unchanged; and whenever the list is set
\* (on load and on post) the streak is set to calculateStreak of that list.
C30_PostPrependsToList ==
    [][/\ (post.pc = "saving" /\ post'.pc = "idle" /\ memories' # memories)
          => memories' = <<save.entry>> \o memories
       /\ memories' # memories => streak' = calculateStreak(memories')
      ]_vars


(***************************************************************************)
(* Properties of analyzeMood, checked under SpecMood.                      *)
(***************************************************************************)
\* C22: analyzeMood never rejects; when the call throws, the response has no
\* text or the text cannot be parsed, it returns the fixed default result.
C22_AnalyzeMoodNeverRejects ==
    analysis.pc = "done" =>
        /\ ~analysis.ret.rejected
        /\ analysis.response \in {"throw", "empty", "unparsable"}
              => analysis.ret.value =
                    [mouth |-> "smile01", eyes |-> "neutral", eyebrows |-> "neutral01",
                     bgColor |-> "FFD700", summary |-> "Just Vibes"]
        /\ analysis.response = "json" => analysis.ret.value = analysis.sent

\* a response whose text JSON.parse threw on was answered with the default
C22_Witness ==
    /\ analysis.pc = "done"
    /\ analysis.response = "unparsable"
    /\ analysis.ret.value.summary = "Just Vibes"
    /\ analysis.sent.mouth = "sad01"

====
